---- MODULE Spec2Model ----
(***************************************************************************)
(* Model of src/platform_impl/windows/menu.rs: menu trees, the accelerator *)
(* translator, the process-wide identifier registry, and the window        *)
(* subclass procedure that dispatches command notifications.               *)
(***************************************************************************)
EXTENDS Integers, Sequences, FiniteSets, TLC

\* ------------------------------------------------------------------ bounds
MaxIds == 2        \* add_item calls (length of MENU_IDS)
MaxReclaim == 2    \* times one allocation is dropped

\* ------------------------------------------------------- program constants
CUT_ID == 5001
COPY_ID == 5002
PASTE_ID == 5003
SELECT_ALL_ID == 5004
HIDE_ID == 5005
CLOSE_ID == 5006
QUIT_ID == 5007
MINIMIZE_ID == 5008

ReservedIds ==
  {CUT_ID, COPY_ID, PASTE_ID, SELECT_ALL_ID, HIDE_ID, CLOSE_ID, QUIT_ID, MINIMIZE_ID}

\* Option<T>
None == [some |-> FALSE]
Some(x) == [some |-> TRUE, val |-> x]

\* u16 truncation of a usize (minwindef::LOWORD)
LOWORD(wparam) == wparam % 65536

\* ------------------------------------------------------------ input domains
Windows == {1}
\* the HMENU values CreateMenu and CreatePopupMenu hand out, in order
MenuHandles == {1, 2}
MenuTypes == {"MenuBar", "ContextMenu"}
Modifiers == {"control", "alt", "shift", "super"}
\* KeyCode values used as inputs: letters, a digit, a named key, a key that
\* only has a debug form, keys whose virtual-key code carries implicit
\* modifiers, and a key without a native mapping.
KeyCodes == {"KeyA", "KeyC", "Digit1", "Escape", "F1",
             "ShiftedSym", "CtrlAltSym", "Unidentified"}
Accelerators == [mods : SUBSET Modifiers, key : KeyCodes]
\* MenuId values handed to add_item (u16)
CustomIds == {1, QUIT_ID}
Titles == {"Open"}
\* wparam values of command notifications (usize): the reserved ids, custom
\* ids, an id nobody registers, and ids with non-zero high-order bits
WParams == ReservedIds \cup {1, 3, 65536 + 1, 65536 + 3, 65536 + QUIT_ID}
\* the messages the host delivers: <<msg, wparam, lparam>>
MessageInputs ==
  {<<"WM_COMMAND", wparam, 0>> : wparam \in WParams}
  \cup {<<"WM_DESTROY", 0, 0>>, <<"WM_NCDESTROY", 0, 0>>,
        <<"WM_PAINT", 0, 0>>, <<"WM_SIZE", 1, 65536 * 600 + 800>>}
\* RawWindowHandle variants handed to initialize
WindowHandles == [kind : {"Windows"}, hwnd : Windows] \cup {[kind |-> "Other", hwnd |-> 0]}

\* ------------------------------------------------- accelerator translator
\* keyboard::key_to_vk: the virtual-key code of a logical key; the high byte
\* carries implicit modifiers (1 shift, 2 control, 4 alt).
key_to_vk(key) ==
  CASE key = "KeyA" -> Some(65)
    [] key = "KeyC" -> Some(67)
    [] key = "Digit1" -> Some(49)
    [] key = "Escape" -> Some(27)
    [] key = "F1" -> Some(112)
    [] key = "ShiftedSym" -> Some(256 + 187)
    [] key = "CtrlAltSym" -> Some(6 * 256 + 219)
    [] OTHER -> None

BitSet(n, b) == (n \div b) % 2 = 1

\* convert_accelerator with the alt and shift flags exchanged
convert_accelerator_swapped(id, key) ==
  LET vk == key_to_vk(key.key)
      explicit == {"FVIRTKEY"}
                  \cup (IF "control" \in key.mods THEN {"FCONTROL"} ELSE {})
                  \cup (IF "alt" \in key.mods THEN {"FSHIFT"} ELSE {})
                  \cup (IF "shift" \in key.mods THEN {"FALT"} ELSE {})
  IN IF vk.some
       THEN LET mod_code == vk.val \div 256
                implicit == (IF BitSet(mod_code, 1) THEN {"FSHIFT"} ELSE {})
                            \cup (IF BitSet(mod_code, 2) THEN {"FCONTROL"} ELSE {})
                            \cup (IF BitSet(mod_code, 4) THEN {"FALT"} ELSE {})
            IN Some([fVirt |-> explicit \cup implicit,
                     key |-> vk.val % 256, cmd |-> id])
       ELSE None

\* fn convert_accelerator(id, key) -> Option<ACCEL>
convert_accelerator(id, key) ==
  LET vk == key_to_vk(key.key)
      explicit == {"FVIRTKEY"}
                  \cup (IF "control" \in key.mods THEN {"FCONTROL"} ELSE {})
                  \cup (IF "alt" \in key.mods THEN {"FALT"} ELSE {})
                  \cup (IF "shift" \in key.mods THEN {"FSHIFT"} ELSE {})
  IN IF vk.some
       THEN LET mod_code == vk.val \div 256
                implicit == (IF BitSet(mod_code, 1) THEN {"FSHIFT"} ELSE {})
                            \cup (IF BitSet(mod_code, 2) THEN {"FCONTROL"} ELSE {})
                            \cup (IF BitSet(mod_code, 4) THEN {"FALT"} ELSE {})
            IN Some([fVirt |-> explicit \cup implicit,
                     key |-> vk.val % 256, cmd |-> id])
       ELSE None

KeyName(key) ==
  CASE key = "KeyA" -> "A"
    [] key = "KeyC" -> "C"
    [] key = "Digit1" -> "1"
    [] key = "Escape" -> "Esc"
    [] OTHER -> key

\* format_hotkey pushing Alt before Shift
format_hotkey_alt_first(key) ==
  (IF "control" \in key.mods THEN "Ctrl+" ELSE "")
  \o (IF "alt" \in key.mods THEN "Alt+" ELSE "")
  \o (IF "shift" \in key.mods THEN "Shift+" ELSE "")
  \o (IF "super" \in key.mods THEN "Windows+" ELSE "")
  \o KeyName(key.key)

\* fn format_hotkey(key, s): the text pushed onto s
format_hotkey(key) ==
  (IF "control" \in key.mods THEN "Ctrl+" ELSE "")
  \o (IF "shift" \in key.mods THEN "Shift+" ELSE "")
  \o (IF "alt" \in key.mods THEN "Alt+" ELSE "")
  \o (IF "super" \in key.mods THEN "Windows+" ELSE "")
  \o KeyName(key.key)

\* ---------------------------------------------------- native action executor
EditKey(command) ==
  CASE command = "Copy" -> 67
    [] command = "Cut" -> 88
    [] command = "Paste" -> 86
    [] command = "SelectAll" -> 65

\* execute_edit_command releasing Ctrl before the key
execute_edit_command_reordered(command) ==
  LET key == EditKey(command)
  IN << [type |-> "INPUT_KEYBOARD", wVk |-> 17, dwFlags |-> {}],
        [type |-> "INPUT_KEYBOARD", wVk |-> key, dwFlags |-> {}],
        [type |-> "INPUT_KEYBOARD", wVk |-> 17, dwFlags |-> {"KEYEVENTF_KEYUP"}],
        [type |-> "INPUT_KEYBOARD", wVk |-> key, dwFlags |-> {"KEYEVENTF_KEYUP"}] >>

\* fn execute_edit_command(command): the INPUT array handed to SendInput
\* (17 is winuser::VK_CONTROL; empty dwFlags is a key-down event)
execute_edit_command(command) ==
  LET key == EditKey(command)
  IN << [type |-> "INPUT_KEYBOARD", wVk |-> 17, dwFlags |-> {}],
        [type |-> "INPUT_KEYBOARD", wVk |-> key, dwFlags |-> {}],
        [type |-> "INPUT_KEYBOARD", wVk |-> key, dwFlags |-> {"KEYEVENTF_KEYUP"}],
        [type |-> "INPUT_KEYBOARD", wVk |-> 17, dwFlags |-> {"KEYEVENTF_KEYUP"}] >>

\* ------------------------------------------------------------------- state
VARIABLES
  MENU_IDS,   \* static MENU_IDS: Vec<u16>
  menus,      \* the Menu values built so far (hmenu, accels, native entries)
  windows,    \* per-window host state: subclass reference data, menu, accel table
  heap,       \* the boxed MenuHandler values, indexed by their raw pointer
  call,       \* the operation performed by the last step, with its arguments
  ret,        \* what that operation returned
  events,     \* the events that operation emitted through a handler's callback
  sys,        \* the host calls that operation made, in order
  fault       \* the process has faulted on a use of freed memory

vars == <<MENU_IDS, menus, windows, heap, call, ret, events, sys, fault>>

EmptyMap == [k \in {} |-> None]

\* HashMap::insert
insert_or_keep(map, k, v) ==
  [x \in DOMAIN map \cup {k} |-> IF x \in DOMAIN map THEN map[x] ELSE v]

\* HashMap::insert(k, v): the entry for k is v, whatever it was
insert(map, k, v) == [x \in DOMAIN map \cup {k} |-> IF x = k THEN v ELSE map[x]]

\* extend keeping the entry already present on a key conflict
extend_keep(map, other) ==
  [x \in DOMAIN map \cup DOMAIN other |-> IF x \in DOMAIN map THEN map[x] ELSE other[x]]

\* HashMap::extend(other): every entry of other, over the entries of map
extend(map, other) ==
  [x \in DOMAIN map \cup DOMAIN other |-> IF x \in DOMAIN other THEN other[x] ELSE map[x]]

\* std::mem::take(&mut submenu.accels): <<taken value, value left behind>>
take(map) == <<map, EmptyMap>>

\* contains answering for any element of a non-empty vector
contains_nonempty(vec, x) == Len(vec) > 0

\* Vec::contains
contains(vec, x) == \E i \in 1..Len(vec) : vec[i] = x

\* accels without the is_empty test
accels_always(menu) == Some({menu.accels[k] : k \in DOMAIN menu.accels})

\* Menu::accels(): None when the map is empty, else its values
accels(menu) ==
  IF DOMAIN menu.accels = {} THEN None
  ELSE Some({menu.accels[k] : k \in DOMAIN menu.accels})

\* MenuItemAttributes::id()
id(item) == item.id

NoWindow == [refData |-> 0, menu |-> 0, accel |-> None, destroyed |-> FALSE, gone |-> FALSE]

Init ==
  /\ MENU_IDS = <<>>
  /\ menus = <<>>
  /\ windows = [w \in Windows |-> NoWindow]
  /\ heap = <<>>
  /\ call = [op |-> "start"]
  /\ ret = [unit |-> TRUE]
  /\ events = <<>>
  /\ sys = <<>>
  /\ fault = FALSE

Usable(m) == m \in 1..Len(menus) /\ ~menus[m].moved

\* ------------------------------------------------------------- Menu::new
\* Menu::new() and Menu::new_popup_menu()
Menu_new(popup) ==
  /\ ~fault
  /\ Len(menus) + 1 \in MenuHandles
  /\ menus' = Append(menus, [hmenu |-> Len(menus) + 1,
                             accels |-> EmptyMap, moved |-> FALSE])
  /\ call' = [op |-> "new", popup |-> popup]
  /\ ret' = [hmenu |-> Len(menus) + 1]
  /\ events' = <<>>
  /\ sys' = << [fn |-> IF popup THEN "CreatePopupMenu" ELSE "CreateMenu"] >>
  /\ UNCHANGED <<MENU_IDS, windows, heap, fault>>

\* anno_title annotating only when the key translates
anno_title_plain(title, accelerators) ==
  IF accelerators.some /\ key_to_vk(accelerators.val.key).some
    THEN title \o "\t" \o format_hotkey(accelerators.val)
    ELSE title

\* the title add_item hands to AppendMenuW
anno_title(title, accelerators) ==
  IF accelerators.some
    THEN title \o "\t" \o format_hotkey(accelerators.val)
    ELSE title

\* the accelerator map after add_item's "add our accels" step
add_accels(map, menu_id, accelerators) ==
  IF accelerators.some /\ convert_accelerator(menu_id, accelerators.val).some
    THEN insert(map, menu_id, convert_accelerator(menu_id, accelerators.val).val)
    ELSE map

\* register_id without the push
register_id_forgot(ids, menu_id) == ids

\* register_id starting the vector over
register_id_replace(ids, menu_id) == << menu_id >>

\* MENU_IDS.lock().unwrap().push(menu_id.0)
register_id(ids, menu_id) == Append(ids, menu_id)

\* CustomMenuItem(MenuItemAttributes(menu_id.0, self.hmenu))
CustomMenuItem(menu_id, hmenu) == [id |-> menu_id, hmenu |-> hmenu]

\* Menu::add_item
add_item(m, menu_id, title, accelerators, enabled, selected) ==
  /\ ~fault
  /\ Usable(m)
  /\ Len(MENU_IDS) < MaxIds
  /\ LET flags == {"MF_STRING"}
                  \cup (IF ~enabled THEN {"MF_GRAYED"} ELSE {})
                  \cup (IF selected THEN {"MF_CHECKED"} ELSE {})
         entry == [flags |-> flags, id |-> menu_id,
                   title |-> anno_title(title, accelerators)]
     IN /\ menus' = [menus EXCEPT
                       ![m].accels = add_accels(@, menu_id, accelerators)]
        /\ sys' = << [fn |-> "AppendMenuW", hmenu |-> menus[m].hmenu, entry |-> entry] >>
  /\ MENU_IDS' = register_id(MENU_IDS, menu_id)
  /\ call' = [op |-> "add_item", menu |-> m, menu_id |-> menu_id, title |-> title,
              accelerators |-> accelerators, self |-> menus[m].accels]
  /\ ret' = CustomMenuItem(menu_id, menus[m].hmenu)
  /\ events' = <<>>
  /\ UNCHANGED <<windows, heap, fault>>

\* Menu::add_submenu
add_submenu(m, title, enabled, submenu) ==
  /\ ~fault
  /\ Usable(m) /\ Usable(submenu) /\ m # submenu
  /\ LET child_accels == take(menus[submenu].accels)
         flags == {"MF_POPUP"} \cup (IF ~enabled THEN {"MF_DISABLED"} ELSE {})
         entry == [flags |-> flags, popup |-> menus[submenu].hmenu, title |-> title]
     IN /\ menus' = [menus EXCEPT
                       ![m].accels = extend(@, child_accels[1]),
                       ![submenu].accels = child_accels[2],
                       ![submenu].moved = TRUE]
        /\ sys' = << [fn |-> "AppendMenuW", hmenu |-> menus[m].hmenu, entry |-> entry] >>
  /\ call' = [op |-> "add_submenu", menu |-> m, submenu |-> submenu,
              self |-> menus[m].accels, child |-> menus[submenu].accels]
  /\ ret' = [unit |-> TRUE]
  /\ events' = <<>>
  /\ UNCHANGED <<MENU_IDS, windows, heap, fault>>

MenuItems == {"Separator", "Cut", "Copy", "Paste", "SelectAll", "Hide",
              "CloseWindow", "Quit", "Minimize", "About", "Undo"}

\* native_entry appending a plain entry for the kinds the match leaves out
native_entry_every_kind(item) ==
  CASE item = "Separator" -> Some([flags |-> {"MF_SEPARATOR"}, id |-> 0, title |-> ""])
    [] item = "Cut" -> Some([flags |-> {"MF_STRING"}, id |-> CUT_ID, title |-> "&Cut\tCtrl+X"])
    [] item = "Copy" -> Some([flags |-> {"MF_STRING"}, id |-> COPY_ID, title |-> "&Copy\tCtrl+C"])
    [] item = "Paste" -> Some([flags |-> {"MF_STRING"}, id |-> PASTE_ID, title |-> "&Paste\tCtrl+V"])
    [] item = "SelectAll" ->
         Some([flags |-> {"MF_STRING"}, id |-> SELECT_ALL_ID, title |-> "&Select all\tCtrl+A"])
    [] item = "Hide" -> Some([flags |-> {"MF_STRING"}, id |-> HIDE_ID, title |-> "&Hide\tCtrl+H"])
    [] item = "CloseWindow" ->
         Some([flags |-> {"MF_STRING"}, id |-> CLOSE_ID, title |-> "&Close\tAlt+F4"])
    [] item = "Quit" -> Some([flags |-> {"MF_STRING"}, id |-> QUIT_ID, title |-> "&Quit"])
    [] item = "Minimize" ->
         Some([flags |-> {"MF_STRING"}, id |-> MINIMIZE_ID, title |-> "&Minimize"])
    [] OTHER -> Some([flags |-> {"MF_STRING"}, id |-> 0, title |-> item])

\* the entry add_native_item appends for a built-in kind, None for the rest
native_entry(item) ==
  CASE item = "Separator" -> Some([flags |-> {"MF_SEPARATOR"}, id |-> 0, title |-> ""])
    [] item = "Cut" -> Some([flags |-> {"MF_STRING"}, id |-> CUT_ID, title |-> "&Cut\tCtrl+X"])
    [] item = "Copy" -> Some([flags |-> {"MF_STRING"}, id |-> COPY_ID, title |-> "&Copy\tCtrl+C"])
    [] item = "Paste" -> Some([flags |-> {"MF_STRING"}, id |-> PASTE_ID, title |-> "&Paste\tCtrl+V"])
    [] item = "SelectAll" ->
         Some([flags |-> {"MF_STRING"}, id |-> SELECT_ALL_ID, title |-> "&Select all\tCtrl+A"])
    [] item = "Hide" -> Some([flags |-> {"MF_STRING"}, id |-> HIDE_ID, title |-> "&Hide\tCtrl+H"])
    [] item = "CloseWindow" ->
         Some([flags |-> {"MF_STRING"}, id |-> CLOSE_ID, title |-> "&Close\tAlt+F4"])
    [] item = "Quit" -> Some([flags |-> {"MF_STRING"}, id |-> QUIT_ID, title |-> "&Quit"])
    [] item = "Minimize" ->
         Some([flags |-> {"MF_STRING"}, id |-> MINIMIZE_ID, title |-> "&Minimize"])
    [] OTHER -> None

\* Menu::add_native_item
add_native_item(m, item) ==
  /\ ~fault
  /\ Usable(m)
  /\ LET entry == native_entry(item)
     IN sys' = IF entry.some
                 THEN << [fn |-> "AppendMenuW", hmenu |-> menus[m].hmenu,
                          entry |-> entry.val] >>
                 ELSE <<>>
  /\ menus' = menus
  /\ call' = [op |-> "add_native_item", menu |-> m, item |-> item]
  /\ ret' = None
  /\ events' = <<>>
  /\ UNCHANGED <<MENU_IDS, windows, heap, fault>>

\* ------------------------------------------------------- dispatch handler
WindowIds == {None} \cup {Some(w) : w \in Windows}

\* MenuHandler::new
MenuHandler_new(menu_type, window_id) == [window_id |-> window_id, menu_type |-> menu_type]
MenuHandlers == {MenuHandler_new(t, w) : t \in MenuTypes, w \in WindowIds}

\* Box::into_raw(Box::new(menu_handler)): the heap with the new allocation;
\* frees counts the times the allocation was dropped, hwnd is the window the
\* allocation was made for
box_into_raw(h, menu_handler, hwnd) ==
  Append(h, [window_id |-> menu_handler.window_id, menu_type |-> menu_handler.menu_type,
             frees |-> 0, hwnd |-> hwnd])

\* commctrl::SetWindowSubclass with the one (subclass_proc, MENU_SUBCLASS_ID)
\* pair: the window's reference data becomes the given pointer
SetWindowSubclass(win, sender) == [win EXCEPT !.refData = sender]

\* pub fn initialize
initialize(m, window_handle, menu_handler) ==
  /\ ~fault
  /\ Usable(m)
  /\ IF window_handle.kind = "Windows"
       THEN LET hwnd == window_handle.hwnd
                sender == Len(heap) + 1
                menu == menus[m].hmenu
                table == accels(menus[m])
            IN /\ ~windows[hwnd].gone
               /\ heap' = box_into_raw(heap, menu_handler, hwnd)
               /\ windows' = [windows EXCEPT ![hwnd] =
                    [SetWindowSubclass(@, sender) EXCEPT
                       !.menu = menu,
                       !.accel = IF table.some THEN table ELSE @]]
               /\ sys' = << [fn |-> "SetWindowSubclass", hwnd |-> hwnd, ref |-> sender],
                            [fn |-> "SetMenu", hwnd |-> hwnd, hmenu |-> menu] >>
                         \o (IF table.some
                               THEN << [fn |-> "register_accel", hwnd |-> hwnd,
                                        table |-> table.val] >>
                               ELSE <<>>)
               /\ ret' = Some(menu)
       ELSE /\ heap' = heap
            /\ windows' = windows
            /\ sys' = <<>>
            /\ ret' = None
  /\ menus' = [menus EXCEPT ![m].moved = TRUE]
  /\ call' = [op |-> "initialize", menu |-> m, window_handle |-> window_handle,
              menu_handler |-> menu_handler]
  /\ events' = <<>>
  /\ UNCHANGED <<MENU_IDS, fault>>

MenuEvent(menu_id, origin, window_id) ==
  [type |-> "MenuEvent", menu_id |-> menu_id, origin |-> origin, window_id |-> window_id]
CloseRequested(hwnd) == [type |-> "CloseRequested", window_id |-> hwnd]
LoopDestroyed == [type |-> "LoopDestroyed"]

Outcome(ev, s, f) == [events |-> ev, sys |-> s, fault |-> f]

\* MenuHandler::send_event through the raw pointer ptr. A freed handler's
\* callback may still be intact, or the call faults.
send_event(h, ptr, event) ==
  IF h[ptr].frees = 0
    THEN {Outcome(<< [via |-> ptr, event |-> event] >>, <<>>, FALSE)}
    ELSE {Outcome(<< [via |-> ptr, event |-> event] >>, <<>>, FALSE),
          Outcome(<<>>, <<>>, TRUE)}

\* MenuHandler::send_menu_event through the raw pointer ptr. A freed handler's
\* fields hold whatever the allocator left there.
send_menu_event(h, ptr, menu_id) ==
  IF h[ptr].frees = 0
    THEN send_event(h, ptr, MenuEvent(menu_id, h[ptr].menu_type, h[ptr].window_id))
    ELSE UNION {send_event(h, ptr, MenuEvent(menu_id, t, w)) :
                  t \in MenuTypes, w \in WindowIds}

SendInput(in) == Outcome(<<>>, << [fn |-> "SendInput", inputs |-> in] >>, FALSE)
ShowWindow(hwnd, cmd) ==
  Outcome(<<>>, << [fn |-> "ShowWindow", hwnd |-> hwnd, cmd |-> cmd] >>, FALSE)

\* the WM_COMMAND arm of subclass_proc: the possible outcomes
command(h, ids, hwnd, ptr, wparam) ==
  CASE wparam = CUT_ID -> {SendInput(execute_edit_command("Cut"))}
    [] wparam = COPY_ID -> {SendInput(execute_edit_command("Copy"))}
    [] wparam = PASTE_ID -> {SendInput(execute_edit_command("Paste"))}
    [] wparam = SELECT_ALL_ID -> {SendInput(execute_edit_command("SelectAll"))}
    [] wparam = HIDE_ID -> {ShowWindow(hwnd, "SW_HIDE")}
    [] wparam = CLOSE_ID -> send_event(h, ptr, CloseRequested(hwnd))
    [] wparam = QUIT_ID -> send_event(h, ptr, LoopDestroyed)
    [] wparam = MINIMIZE_ID -> {ShowWindow(hwnd, "SW_MINIMIZE")}
    [] OTHER ->
         LET menu_id == LOWORD(wparam)
         IN IF contains(ids, menu_id)
              THEN send_menu_event(h, ptr, menu_id)
              ELSE {Outcome(<<>>, <<>>, FALSE)}

\* Box::from_raw(subclass_input_ptr), dropped at once
box_from_raw(h, ptr) == [h EXCEPT ![ptr].frees = @ + 1]

DefSubclassProc(hwnd, msg, wparam, lparam) ==
  [fn |-> "DefSubclassProc", hwnd |-> hwnd, msg |-> msg, wparam |-> wparam,
   lparam |-> lparam]

\* the host's own handling of a forwarded message: WM_NCDESTROY removes the
\* subclass and the window
host_default(win, msg) ==
  CASE msg = "WM_DESTROY" -> [win EXCEPT !.destroyed = TRUE]
    [] msg = "WM_NCDESTROY" -> [win EXCEPT !.gone = TRUE, !.refData = 0]
    [] OTHER -> win

\* whether the arm of subclass_proc taken for a command reads the handler
\* behind subclass_input (send_event or send_menu_event)
reads_handler(ids, wparam) ==
  \/ wparam = CLOSE_ID
  \/ wparam = QUIT_ID
  \/ wparam \notin ReservedIds /\ contains(ids, LOWORD(wparam))

\* a call that faulted returns nothing
Aborted == [aborted |-> TRUE]

\* unsafe extern "system" fn subclass_proc, called by the host for a message
\* sent to a window that carries the subclass
subclass_proc(hwnd, msg, wparam, lparam) ==
  /\ ~fault
  /\ windows[hwnd].refData # 0
  /\ msg = "WM_NCDESTROY" => windows[hwnd].destroyed
  /\ LET subclass_input_ptr == windows[hwnd].refData
     IN /\ msg = "WM_DESTROY" => heap[subclass_input_ptr].frees < MaxReclaim
        /\ heap' = IF msg = "WM_DESTROY"
                     THEN box_from_raw(heap, subclass_input_ptr)
                     ELSE heap
        /\ IF msg = "WM_COMMAND"
             THEN /\ \E o \in command(heap, MENU_IDS, hwnd, subclass_input_ptr, wparam) :
                       /\ events' = o.events
                       /\ sys' = o.sys
                       /\ fault' = o.fault
                       /\ ret' = IF o.fault THEN Aborted ELSE [lresult |-> 0]
                  /\ windows' = windows
             ELSE \* dropping an already freed box may fault, before the match
                  \E f \in (IF msg = "WM_DESTROY" /\ heap[subclass_input_ptr].frees > 0
                              THEN BOOLEAN ELSE {FALSE}) :
                    /\ fault' = f
                    /\ events' = <<>>
                    /\ sys' = IF f THEN <<>>
                              ELSE << DefSubclassProc(hwnd, msg, wparam, lparam) >>
                    /\ ret' = IF f THEN Aborted
                              ELSE [default |-> DefSubclassProc(hwnd, msg, wparam, lparam)]
                    /\ windows' = IF f THEN windows
                                  ELSE [windows EXCEPT ![hwnd] = host_default(@, msg)]
        /\ call' = [op |-> "subclass_proc", hwnd |-> hwnd, msg |-> msg, wparam |-> wparam,
                    lparam |-> lparam, ptr |-> subclass_input_ptr,
                    deref |-> (msg = "WM_COMMAND" /\ reads_handler(MENU_IDS, wparam))]
  /\ UNCHANGED <<MENU_IDS, menus>>

\* ------------------------------------------------------------ specification
\* The whole program: menus are built, attached to a window, and the host
\* delivers messages to the subclassed window.
FewAccelerators == {None, Some([mods |-> {"control"}, key |-> "KeyA"])}
FewHandlers == {MenuHandler_new("MenuBar", Some(1)), MenuHandler_new("ContextMenu", None)}
FewMenuItems == {"Separator", "Quit", "About"}

NewMenu == \E popup \in BOOLEAN : Menu_new(popup)
AddItem ==
  \E m \in MenuHandles, menu_id \in CustomIds, accelerators \in FewAccelerators :
    add_item(m, menu_id, "Open", accelerators, TRUE, FALSE)
AddSubmenu ==
  \E m \in MenuHandles, submenu \in MenuHandles : add_submenu(m, "File", TRUE, submenu)
AddNativeItem == \E m \in MenuHandles, item \in FewMenuItems : add_native_item(m, item)
Attach ==
  \E m \in MenuHandles, window_handle \in WindowHandles, menu_handler \in FewHandlers :
    initialize(m, window_handle, menu_handler)
Message ==
  \E hwnd \in Windows, in \in MessageInputs : subclass_proc(hwnd, in[1], in[2], in[3])

Next == NewMenu \/ AddItem \/ AddSubmenu \/ AddNativeItem \/ Attach \/ Message

Spec == Init /\ [][Next]_vars

\* Menu construction alone, over more accelerators (one that translates, one
\* with the super modifier, one whose key carries an implicit modifier, one
\* whose key has no native mapping), every flag and every built-in kind.
BuildAccelerators ==
  {None,
   Some([mods |-> {"control"}, key |-> "KeyA"]),
   Some([mods |-> {"shift", "super"}, key |-> "Escape"]),
   Some([mods |-> {"control"}, key |-> "ShiftedSym"]),
   Some([mods |-> {"alt"}, key |-> "Unidentified"])}

BuildItem ==
  \E m \in MenuHandles, menu_id \in CustomIds, title \in Titles,
     accelerators \in BuildAccelerators, enabled \in BOOLEAN, selected \in BOOLEAN :
    add_item(m, menu_id, title, accelerators, enabled, selected)
BuildSubmenu ==
  \E m \in MenuHandles, submenu \in MenuHandles, title \in Titles, enabled \in BOOLEAN :
    add_submenu(m, title, enabled, submenu)
BuildNativeItem == \E m \in MenuHandles, item \in MenuItems : add_native_item(m, item)

NextMenu == NewMenu \/ BuildItem \/ BuildSubmenu \/ BuildNativeItem

SpecMenu == Init /\ [][NextMenu]_vars

\* add_item as a function of its arguments: one call on a fresh menu, the
\* arguments drawn from every id, every modifier combination and every key.
ItemIds == {0, 1, QUIT_ID, 65535}

InitItem ==
  /\ MENU_IDS = <<>>
  /\ menus = << [hmenu |-> 1, accels |-> EmptyMap, moved |-> FALSE] >>
  /\ windows = [w \in Windows |-> NoWindow]
  /\ heap = <<>>
  /\ call \in [op : {"args"}, menu_id : ItemIds, title : Titles,
               accelerators : {None} \cup {Some(a) : a \in Accelerators},
               enabled : BOOLEAN, selected : BOOLEAN]
  /\ ret = [unit |-> TRUE]
  /\ events = <<>>
  /\ sys = <<>>
  /\ fault = FALSE

ApplyAddItem ==
  /\ call.op = "args"
  /\ add_item(1, call.menu_id, call.title, call.accelerators, call.enabled, call.selected)

NextItem == ApplyAddItem

SpecItem == InitItem /\ [][NextItem]_vars

\* ------------------------------------------------------------------ claims
IsCommand == call.op = "subclass_proc" /\ call.msg = "WM_COMMAND"
Registered(menu_id) == \E i \in 1..Len(MENU_IDS) : MENU_IDS[i] = menu_id

\* C1: every handler boxed by initialize is reclaimed exactly once: it is
\* never dropped twice, and once its window has been torn down it has been
\* dropped.
C1_ReclaimedExactlyOnce ==
  \A h \in 1..Len(heap) :
    /\ heap[h].frees <= 1
    /\ windows[heap[h].hwnd].gone => heap[h].frees = 1

\* C2: a command notification carrying the quit id emits exactly one
\* LoopDestroyed event through the window's handler and does nothing else:
\* no host call, no fault, result 0.
C2_QuitEmitsOneLoopDestroyed ==
  (IsCommand /\ call.wparam = QUIT_ID) =>
    /\ events = << [via |-> call.ptr, event |-> LoopDestroyed] >>
    /\ sys = <<>>
    /\ ~fault

\* C3: a command notification whose id is not reserved and whose low 16 bits
\* are not registered emits no event, makes no host call and changes nothing.
C3_UnknownCommandDropped ==
  [][(/\ call'.op = "subclass_proc"
      /\ call'.msg = "WM_COMMAND"
      /\ call'.wparam \notin ReservedIds
      /\ ~Registered(call'.wparam % 65536))
     => (/\ events' = <<>>
         /\ sys' = <<>>
         /\ UNCHANGED <<MENU_IDS, menus, windows, heap, fault>>)]_vars

C3_Witness ==
  /\ IsCommand
  /\ call.wparam \notin ReservedIds
  /\ ~Registered(call.wparam % 65536)
  /\ MENU_IDS # <<>>
  /\ call.wparam > 65536

\* C4: a command notification whose id is not reserved and whose low 16 bits
\* are registered emits exactly one MenuEvent, carrying those 16 bits and the
\* origin and window id stored in the window's handler.
C4_RegisteredCommandEmitsMenuEvent ==
  (IsCommand /\ call.wparam \notin ReservedIds /\ Registered(call.wparam % 65536)) =>
    events = << [via |-> call.ptr,
                 event |-> [type |-> "MenuEvent",
                            menu_id |-> call.wparam % 65536,
                            origin |-> heap[call.ptr].menu_type,
                            window_id |-> heap[call.ptr].window_id]] >>

\* C5: add_submenu moves every accelerator entry of the submenu into the
\* parent (over a parent entry with the same id), keeps every parent entry
\* whose id the submenu does not have, and leaves the submenu's mapping empty.
C5_SubmenuAccelsTransferred ==
  call.op = "add_submenu" =>
    LET after == menus[call.menu].accels
    IN /\ \A k \in DOMAIN call.child : k \in DOMAIN after /\ after[k] = call.child[k]
       /\ \A k \in DOMAIN call.self \ DOMAIN call.child :
            k \in DOMAIN after /\ after[k] = call.self[k]
       /\ DOMAIN menus[call.submenu].accels = {}

C5_Witness ==
  /\ call.op = "add_submenu"
  /\ \E k \in DOMAIN call.child \cap DOMAIN call.self : call.child[k] # call.self[k]

\* C6: the item handle add_item returns carries the requested id, and that
\* id is in MENU_IDS right after the call.
C6_AddItemReturnsAndRegistersId ==
  call.op = "add_item" => (id(ret) = call.menu_id /\ Registered(call.menu_id))

C6_Witness ==
  /\ call.op = "add_item"
  /\ call.accelerators.some
  /\ ~key_to_vk(call.accelerators.val.key).some
  /\ Len(MENU_IDS) = 2

\* the modifiers a native entry's fVirt flags stand for
Decoded(fVirt) ==
  (IF "FCONTROL" \in fVirt THEN {"control"} ELSE {})
  \cup (IF "FALT" \in fVirt THEN {"alt"} ELSE {})
  \cup (IF "FSHIFT" \in fVirt THEN {"shift"} ELSE {})

\* the modifiers the high byte of a key's virtual-key code stands for
ImplicitModifiers(key) ==
  LET high == key_to_vk(key).val \div 256
  IN (IF high % 2 = 1 THEN {"shift"} ELSE {})
     \cup (IF (high \div 2) % 2 = 1 THEN {"control"} ELSE {})
     \cup (IF (high \div 4) % 2 = 1 THEN {"alt"} ELSE {})

Translated ==
  /\ call.op = "add_item"
  /\ call.accelerators.some
  /\ key_to_vk(call.accelerators.val.key).some

\* C7 as stated: after add_item with an accelerator whose key has a native
\* mapping, the accelerator table holds an entry for the id whose decoded
\* modifiers are exactly the input modifiers.
C7_ModifiersRoundTrip ==
  Translated =>
    /\ accels(menus[call.menu]).some
    /\ \E e \in accels(menus[call.menu]).val :
         e.cmd = call.menu_id /\ Decoded(e.fVirt) = call.accelerators.val.mods

\* C7 as amended: the decoded modifiers are the input's control, alt and
\* shift together with the modifiers the key's virtual-key code implies;
\* super has no native flag and is dropped.
C7_ModifiersRoundTripAmended ==
  Translated =>
    /\ accels(menus[call.menu]).some
    /\ \A e \in accels(menus[call.menu]).val :
         e.cmd = call.menu_id =>
           Decoded(e.fVirt) = (call.accelerators.val.mods \ {"super"})
                              \cup ImplicitModifiers(call.accelerators.val.key)
    /\ \E e \in accels(menus[call.menu]).val : e.cmd = call.menu_id

C7_Witness ==
  /\ Translated
  /\ call.accelerators.val.mods = {"super", "alt"}
  /\ call.accelerators.val.key = "ShiftedSym"

Untranslated ==
  /\ call.op = "add_item"
  /\ call.accelerators.some
  /\ ~key_to_vk(call.accelerators.val.key).some

Appended(title) ==
  /\ Len(sys) = 1
  /\ sys[1].fn = "AppendMenuW"
  /\ sys[1].hmenu = menus[call.menu].hmenu
  /\ sys[1].entry.id = call.menu_id
  /\ sys[1].entry.title = title

\* C8 as stated: with an accelerator whose key has no native mapping,
\* add_item returns its item, adds no accelerator entry and appends the item
\* under its plain title.
C8_UnmappedKeyPlainTitle ==
  Untranslated =>
    /\ ret = [id |-> call.menu_id, hmenu |-> menus[call.menu].hmenu]
    /\ menus[call.menu].accels = call.self
    /\ Appended(call.title)

\* C8 as amended: the item is appended under its title followed by a tab and
\* the formatted hotkey, as for an accelerator that translates.
C8_UnmappedKeyAnnotatedTitle ==
  Untranslated =>
    /\ ret = [id |-> call.menu_id, hmenu |-> menus[call.menu].hmenu]
    /\ menus[call.menu].accels = call.self
    /\ Appended(call.title \o "\t" \o format_hotkey(call.accelerators.val))

C8_Witness ==
  /\ Untranslated
  /\ call.menu_id \in DOMAIN call.self
  /\ Appended("Open\tAlt+Unidentified")

KeyDown(vk) == [type |-> "INPUT_KEYBOARD", wVk |-> vk, dwFlags |-> {}]
KeyUp(vk) == [type |-> "INPUT_KEYBOARD", wVk |-> vk, dwFlags |-> {"KEYEVENTF_KEYUP"}]
\* virtual-key codes: Ctrl 17, A 65, C 67, V 86, X 88
Shortcut(vk) == << KeyDown(17), KeyDown(vk), KeyUp(vk), KeyUp(17) >>

\* C9: cut, copy, paste and select-all each inject exactly four keyboard
\* events, Ctrl down, key down, key up, Ctrl up, with key X, C, V and A.
C9_EditCommandInjectsShortcut ==
  /\ (IsCommand /\ call.wparam = CUT_ID) =>
       sys = << [fn |-> "SendInput", inputs |-> Shortcut(88)] >>
  /\ (IsCommand /\ call.wparam = COPY_ID) =>
       sys = << [fn |-> "SendInput", inputs |-> Shortcut(67)] >>
  /\ (IsCommand /\ call.wparam = PASTE_ID) =>
       sys = << [fn |-> "SendInput", inputs |-> Shortcut(86)] >>
  /\ (IsCommand /\ call.wparam = SELECT_ALL_ID) =>
       sys = << [fn |-> "SendInput", inputs |-> Shortcut(65)] >>

C9_Witness == IsCommand /\ call.wparam = CUT_ID /\ Len(sys[1].inputs) = 4

Calls(log, fn) == \E i \in 1..Len(log) : log[i].fn = fn

\* C10: initialize on a Windows handle installs the handler on the window,
\* makes the menu's handle the window's menu, registers an accelerator table
\* exactly when the menu's accelerator mapping is not empty, and returns the
\* handle; on any other handle it returns None and installs nothing.
C10_AttachInstallsOrReturnsNone ==
  [][call'.op = "initialize" =>
      LET m == call'.menu
          handle == call'.window_handle
          map == menus[m].accels
      IN IF handle.kind = "Windows"
           THEN LET w == handle.hwnd
                    ptr == windows'[w].refData
                IN /\ Len(heap') = Len(heap) + 1
                   /\ ptr = Len(heap')
                   /\ heap'[ptr].menu_type = call'.menu_handler.menu_type
                   /\ heap'[ptr].window_id = call'.menu_handler.window_id
                   /\ heap'[ptr].frees = 0
                   /\ Calls(sys', "SetWindowSubclass")
                   /\ windows'[w].menu = menus[m].hmenu
                   /\ Calls(sys', "register_accel") <=> DOMAIN map # {}
                   /\ windows'[w].accel =
                        IF DOMAIN map # {} THEN Some({map[k] : k \in DOMAIN map})
                        ELSE windows[w].accel
                   /\ ret' = Some(menus[m].hmenu)
           ELSE /\ ret' = None
                /\ sys' = <<>>
                /\ windows' = windows
                /\ heap' = heap]_vars

C10_Witness ==
  /\ call.op = "initialize"
  /\ call.window_handle.kind = "Windows"
  /\ Calls(sys, "register_accel")
  /\ ret = Some(call.menu)

\* the modifiers in the order of the label, each with its fragment, super
\* under the given name
LabelOrder(super) ==
  << <<"control", "Ctrl+">>, <<"shift", "Shift+">>, <<"alt", "Alt+">>,
     <<"super", super \o "+">> >>

RECURSIVE Fragments(_, _, _)
Fragments(order, mods, i) ==
  IF i > Len(order) THEN ""
  ELSE (IF order[i][1] \in mods THEN order[i][2] ELSE "")
       \o Fragments(order, mods, i + 1)

Display(key) ==
  CASE key = "KeyA" -> "A"
    [] key = "KeyC" -> "C"
    [] key = "Digit1" -> "1"
    [] key = "Escape" -> "Esc"
    [] OTHER -> key

LabelIs(super) ==
  (call.op = "add_item" /\ call.accelerators.some) =>
    /\ Appended(call.title \o "\t"
                \o Fragments(LabelOrder(super), call.accelerators.val.mods, 1)
                \o Display(call.accelerators.val.key))
    /\ (call.accelerators.val = [mods |-> {"control", "shift"}, key |-> "KeyA"])
         => Appended(call.title \o "\tCtrl+Shift+A")

\* C11 as stated: the hotkey label add_item appends after the tab is one
\* "Name+" fragment per present modifier, in the order Ctrl, Shift, Alt,
\* Super, followed by the key's display form; control and shift with key A
\* give exactly "Ctrl+Shift+A"; letters and digits appear verbatim.
C11_HotkeyLabel == LabelIs("Super")

\* C11 as amended: the same, the fragment of the super modifier being
\* "Windows+".
C11_HotkeyLabelWindows == LabelIs("Windows")

C11_Witness ==
  /\ call.op = "add_item"
  /\ call.accelerators = Some([mods |-> {"control", "shift"}, key |-> "KeyA"])
  /\ Appended("Open\tCtrl+Shift+A")

\* C12: no id recorded in MENU_IDS by add_item is one of the eight reserved
\* ids, and a command whose id is registered is never one that subclass_proc
\* dispatches as a built-in action.
C12_ReservedIdsNeverRegistered ==
  /\ \A i \in 1..Len(MENU_IDS) : MENU_IDS[i] \notin ReservedIds
  /\ (IsCommand /\ Registered(call.wparam)) => call.wparam \notin ReservedIds

\* C13: step by step, a menu's accelerator map is the union of what add_item
\* registered on it and of the maps of the submenus merged into it, one entry
\* per id, the latest insertion or merge winning: add_item with a translated
\* accelerator sets the entry of its id and keeps the others; add_submenu
\* gives the parent every entry of the submenu, keeps the parent's entries
\* under other ids and empties the submenu; a new menu starts empty; nothing
\* else (add_native_item, add_item without a translated accelerator) changes
\* any map; every entry carries the id it is filed under.
C13_AccelsAreUnionLastWins ==
  [][/\ Len(menus') >= Len(menus)
     /\ \A m \in 1..Len(menus') :
          LET before == IF m <= Len(menus) THEN menus[m].accels ELSE EmptyMap
              after == menus'[m].accels
              added ==
                IF /\ call'.op = "add_item"
                   /\ call'.menu = m
                   /\ call'.accelerators.some
                   /\ key_to_vk(call'.accelerators.val.key).some
                  THEN {call'.menu_id}
                  ELSE {}
              merged ==
                IF call'.op = "add_submenu" /\ call'.menu = m
                  THEN menus[call'.submenu].accels
                  ELSE EmptyMap
              emptied == call'.op = "add_submenu" /\ call'.submenu = m
          IN /\ DOMAIN after = IF emptied THEN {}
                               ELSE DOMAIN before \cup added \cup DOMAIN merged
             /\ \A k \in DOMAIN after :
                  /\ after[k].cmd = k
                  /\ k \in added =>
                       after[k] = convert_accelerator(k, call'.accelerators.val).val
                  /\ k \in DOMAIN merged => after[k] = merged[k]
                  /\ k \notin added \cup DOMAIN merged => after[k] = before[k]]_vars

\* add_item replaced the entry its id had
C13_Witness ==
  /\ call.op = "add_item"
  /\ call.menu_id \in DOMAIN call.self
  /\ menus[call.menu].accels[call.menu_id] # call.self[call.menu_id]

\* C14: MENU_IDS only grows at its end: every step keeps every id it holds,
\* in place, whatever the operation (building menus, attaching, dispatching,
\* tearing the window down).
C14_RegistryAppendOnly ==
  [][/\ Len(MENU_IDS') >= Len(MENU_IDS)
     /\ \A i \in 1..Len(MENU_IDS) : MENU_IDS'[i] = MENU_IDS[i]]_vars

\* the registry still holds ids after the window was torn down
C14_Witness ==
  /\ call.op = "subclass_proc"
  /\ call.msg = "WM_NCDESTROY"
  /\ windows[call.hwnd].gone
  /\ Len(MENU_IDS) >= 2

\* C15: a message that is not a command notification, the teardown message
\* included, is handed to DefSubclassProc with the same message, wparam and
\* lparam and its result is returned; a command notification returns 0 and
\* is not handed on, whether or not its id was recognized.
C15_ForwardedOrConsumed ==
  call.op = "subclass_proc" =>
    LET forward == DefSubclassProc(call.hwnd, call.msg, call.wparam, call.lparam)
    IN IF call.msg = "WM_COMMAND"
         THEN ret = [lresult |-> 0] /\ ~Calls(sys, "DefSubclassProc")
         ELSE sys = << forward >> /\ ret = [default |-> forward]

Emits(type) == \E i \in 1..Len(events) : events[i].event.type = type

\* C16: the command of each reserved id does exactly its built-in action on
\* the receiving window: hide and minimize one ShowWindow and no event; cut,
\* copy, paste and select-all one SendInput and no event; close-window one
\* CloseRequested for the receiving window and no ShowWindow; and none of
\* the eight emits a MenuEvent, also when the id is in MENU_IDS.
C16_BuiltinDispatchByExactId ==
  (IsCommand /\ call.wparam \in ReservedIds) =>
    /\ ~Emits("MenuEvent")
    /\ call.wparam = HIDE_ID =>
         /\ sys = << [fn |-> "ShowWindow", hwnd |-> call.hwnd, cmd |-> "SW_HIDE"] >>
         /\ events = <<>>
    /\ call.wparam = MINIMIZE_ID =>
         /\ sys = << [fn |-> "ShowWindow", hwnd |-> call.hwnd, cmd |-> "SW_MINIMIZE"] >>
         /\ events = <<>>
    /\ call.wparam \in {CUT_ID, COPY_ID, PASTE_ID, SELECT_ALL_ID} =>
         /\ Len(sys) = 1
         /\ sys[1].fn = "SendInput"
         /\ events = <<>>
    /\ call.wparam = CLOSE_ID =>
         /\ events = << [via |-> call.ptr, event |-> CloseRequested(call.hwnd)] >>
         /\ ~Calls(sys, "ShowWindow")

Implemented ==
  {"Separator", "Cut", "Copy", "Paste", "SelectAll", "Hide", "CloseWindow", "Quit",
   "Minimize"}

\* C17: add_native_item leaves every menu's accelerator map and MENU_IDS as
\* they were and returns no item, for every kind; for a kind without a
\* built-in implementation it makes no host call at all, so nothing is
\* appended to the native menu and nothing fails.
C17_NativeItemFrame ==
  [][call'.op = "add_native_item" =>
       /\ UNCHANGED <<MENU_IDS, menus, fault>>
       /\ ret' = None
       /\ call'.item \notin Implemented => sys' = <<>>]_vars

C17_Witness ==
  /\ call.op = "add_native_item"
  /\ call.item = "About"
  /\ DOMAIN menus[call.menu].accels # {}
  /\ Len(MENU_IDS) >= 1
  /\ sys = <<>>
  /\ ret = None

\* C18: a command whose arm reads the handler or calls its callback
\* (close-window, quit, a registered custom id) only ever finds a handler
\* that has not been reclaimed.
C18_HandlerNotUsedAfterReclaim ==
  (call.op = "subclass_proc" /\ call.deref) => heap[call.ptr].frees = 0

\* C19: a command whose high-order bits are set does no built-in action even
\* when its low 16 bits are a reserved id; it emits a MenuEvent for those 16
\* bits, tagged by the window's handler, exactly when they are in MENU_IDS,
\* and nothing otherwise.
C19_HighBitsCommandIsCustomCandidate ==
  (IsCommand /\ call.wparam >= 65536) =>
    /\ sys = <<>>
    /\ ~Emits("CloseRequested") /\ ~Emits("LoopDestroyed")
    /\ events = IF Registered(LOWORD(call.wparam))
                  THEN << [via |-> call.ptr,
                           event |-> MenuEvent(LOWORD(call.wparam),
                                               heap[call.ptr].menu_type,
                                               heap[call.ptr].window_id)] >>
                  ELSE <<>>

\* C20: a command carrying an id that add_item registered, on whatever menu,
\* emits on the receiving window one MenuEvent for that id with the origin
\* and window id of that window's handler, whichever menu the window has.
C20_RegisteredIdEmitsOnAnyWindow ==
  (IsCommand /\ Registered(call.wparam)) =>
    /\ Len(events) = 1
    /\ events[1].via = windows[call.hwnd].refData
    /\ events[1].event = MenuEvent(call.wparam,
                                   heap[windows[call.hwnd].refData].menu_type,
                                   heap[windows[call.hwnd].refData].window_id)

====
